---- MODULE Spec2Model ----
(***************************************************************************)
(* Orbital: the workspace store of the web client (sendMessage, uploadCSV, *)
(* loadSession, reset), the UI paths of the workspace page that call it,   *)
(* and the turn protocol of the agent loop behind the chat endpoint.       *)
(*                                                                         *)
(* Conventions.  A TypeScript value that may be null/undefined is a        *)
(* sequence of length 0 (absent) or 1 (present).  Message ids are pairs    *)
(* <<prefix, n>>: `temp-${t}` is <<"temp", t>>, `user-${id}` is            *)
(* <<"user", n>> when the server's messageId is <<"msg", n>>.  Date.now()  *)
(* is the variable now; a chat round trip takes at least one clock tick.   *)
(***************************************************************************)
EXTENDS Integers, Sequences, FiniteSets, TLC

\* ---------------------------------------------------------------- bounds
\* The number of asynchronous store calls (loadSession, sendMessage, uploadCSV)
\* started in one behaviour.
MaxCalls == 3

\* ---------------------------------------------------------------- values
None == <<>>
Some(x) == <<x>>

SessionId == "s1"

UserInputs == {"q1"}
ReportPrompt == "Generate a report summarizing our analysis"
SendErrors == {"provider unreachable"}
DefaultLoadError == "Failed to load session"
DefaultUploadError == "Upload failed"

UploadUserContent == "I uploaded orders.csv (1 table: orders [38 rows])"
UploadPlain == "Dataset uploaded successfully."
UploadWithQuestions == "Dataset uploaded successfully. [q2](#ask)"
SuggestedQuestionSets == {<<>>, <<"q2">>}

\* The texts of the href="#ask" links that the markdown of a content renders.
AskLinks(content) == IF content = UploadWithQuestions THEN {"q2"} ELSE {}

Bar == [type |-> "bar", title |-> "sales"]
Line == [type |-> "line", title |-> ""]
Network == [type |-> "network", title |-> "links"]

Q1 == [data |-> "rows1", columns |-> "cols1"]
Q2 == [data |-> "rows2", columns |-> "cols2"]

SqlError == [tool |-> "run_sql", error |-> Some("bad sql")]
SchemaOk == [tool |-> "get_schema", error |-> None]

\* The turns the backend is asked for: a plain answer, a turn that ran tools
\* and returned query results, a turn that ran a tool and returned charts.
Turns ==
  { [visualizations |-> <<>>, toolCalls |-> <<>>, queryResults |-> <<>>],
    [visualizations |-> <<>>, toolCalls |-> <<SqlError, SchemaOk>>,
     queryResults |-> <<Q1, Q2>>],
    [visualizations |-> <<Bar, Network, Line>>, toolCalls |-> <<SchemaOk>>,
     queryResults |-> <<>>] }

VARIABLES
  mounted,            \* the workspace page is mounted
  session,            \* store: Session | null
  isLoading,
  isSending,
  sendStartedAt,
  error,
  isUploading,
  activeTab,
  visualizationTabs,
  activeVizTabIndex,
  currentVisualization,
  currentQueryResult,
  activeDataView,
  sessionDatasets,
  calls,              \* the asynchronous store calls, in the order they started
  now,                \* Date.now()
  stored,             \* server: the messages persisted for the session
  messageSeq,         \* server: number of messageIds handed out
  attached,           \* server: datasets attached to the session
  turnState,          \* orchestrator: the state of the turn
  invocation,         \* orchestrator: the validated tool invocation being executed
  turnToolCalls,      \* orchestrator: the ToolCall records of the turn
  observations,       \* orchestrator: tool results fed back into the model's context
  executorRuns,       \* orchestrator: the tools whose executor was invoked
  turnMessages,       \* orchestrator: the final messages the turn emitted
  failure,            \* orchestrator: why the turn is FAILED
  sessionData,        \* orchestrator: writes of executors to the session's data
  answer,             \* orchestrator: the text FINALIZING puts in the assistant message
  sessionStore,       \* Session Store: the messages persisted for the session
  storeVersion,       \* Session Store: the version of the session
  expectedVersion,    \* orchestrator: the version its next append expects
  appendAttempts,     \* orchestrator: appends of the turn that met a conflict
  loggerMounted,      \* useInteractionLogger: the component using the hook is mounted
  sessionIdProp,      \* useInteractionLogger: the sessionId argument
  pendingEvents,      \* useInteractionLogger: pendingEvents.current
  timeoutRef,         \* useInteractionLogger: timeoutRef.current (when the timer is due)
  timerArmed,         \* useInteractionLogger: the timer of timeoutRef has not fired
  lastSessionId,      \* useInteractionLogger: lastSessionId.current
  systemEvents,       \* the api.logSystemEvent requests issued, in order
  logNow,             \* the time of the logger, in ms
  logged,             \* for each logInteraction call so far, the number of its run
  lastLoggedAt,       \* the time of the last logInteraction call
  sessionSteady,      \* sessionId was non-null at mount and has not changed
  selectedModel,      \* model store
  availableModels,    \* model store: the keys of the models, in order
  defaultModel,       \* model store
  modelIsLoading,     \* model store: isLoading
  modelError,         \* model store: error
  modelLoads,         \* the loadModels calls waiting for GET /api/models
  modelReply,         \* how the last loadModels call ended
  groupInput,         \* ChatPanel: the messages prop of the last render
  groups,             \* ChatPanel: groupMessages(messages) of the last render
  sessionName,        \* store: session.name, the initialTitle prop of EditableTitle
  capturedName,       \* store: session.name as captured by a sendMessage in flight
  mode,               \* EditableTitle: "view" | "edit" | "saving" | "generating"
  title,              \* EditableTitle: title state
  editValue,          \* EditableTitle: editValue state
  titleError,         \* EditableTitle: error state
  saving,             \* EditableTitle: the handleSave call awaiting updateSession
  serverName,         \* server: the name stored for the session
  onTitleChangeCalls, \* the arguments of the onTitleChange calls so far
  portsPc,            \* resolve-ports.sh: where the script is
  GIT_DIR,            \* resolve-ports.sh: linked worktree or not, and its name
  WORKSPACE_NAME,     \* resolve-ports.sh: the character codes of the name
  hash_sum,           \* resolve-ports.sh
  charIndex,          \* resolve-ports.sh: i of the for loop
  ORBITAL_API_PORT,
  ORBITAL_WEB_PORT,
  ORBITAL_INSTANCE_SUFFIX,
  ORBITAL_API_PORT_OVERRIDE,
  ORBITAL_WEB_PORT_OVERRIDE

storeVars == <<session, isLoading, isSending, sendStartedAt, error, isUploading,
               activeTab, visualizationTabs, activeVizTabIndex,
               currentVisualization, currentQueryResult, activeDataView,
               sessionDatasets>>
serverVars == <<stored, messageSeq, attached>>
clientVars == <<mounted, storeVars, calls, now, serverVars>>
turnVars == <<turnState, invocation, turnToolCalls, observations, executorRuns,
              turnMessages, failure, answer, sessionData, sessionStore,
              storeVersion, expectedVersion, appendAttempts>>
persistVars == <<storeVersion, expectedVersion, appendAttempts>>
loggerVars == <<loggerMounted, sessionIdProp, pendingEvents, timeoutRef, timerArmed,
                lastSessionId, systemEvents, logNow, logged, lastLoggedAt,
                sessionSteady>>
modelVars == <<selectedModel, availableModels, defaultModel, modelIsLoading,
               modelError, modelLoads, modelReply>>
groupVars == <<groupInput, groups>>
titleVars == <<sessionName, capturedName, mode, title, editValue, titleError, saving,
               serverName, onTitleChangeCalls>>
portVars == <<portsPc, GIT_DIR, WORKSPACE_NAME, hash_sum, charIndex, ORBITAL_API_PORT,
              ORBITAL_WEB_PORT, ORBITAL_INSTANCE_SUFFIX, ORBITAL_API_PORT_OVERRIDE,
              ORBITAL_WEB_PORT_OVERRIDE>>
sideVars == <<loggerVars, modelVars, groupVars, titleVars, portVars>>
loggerRest == <<clientVars, turnVars, modelVars, groupVars, titleVars, portVars>>
modelRest == <<clientVars, turnVars, loggerVars, groupVars, titleVars, portVars>>
groupRest == <<clientVars, turnVars, loggerVars, modelVars, titleVars, portVars>>
titleRest == <<clientVars, turnVars, loggerVars, modelVars, groupVars, portVars>>
portRest == <<clientVars, turnVars, loggerVars, modelVars, groupVars, titleVars>>

\* ---------------------------------------------------------------- helpers
Last(s) == s[Len(s)]

Msg(id, role, content, ts) ==
  [id |-> id, role |-> role, content |-> content, timestamp |-> ts,
   charts |-> None, graphs |-> None, toolCalls |-> None,
   queryResults |-> None, isError |-> FALSE]

\* `xs.length > 0 ? xs : undefined`
NonEmptyOrUndefined(xs) == IF Len(xs) > 0 THEN Some(xs) ELSE None

\* Mutant: the charts filter keeps every visualization.
ChartsOf_all(visualizations) == visualizations

ChartsOf(visualizations) == SelectSeq(visualizations, LAMBDA v : v.type # "network")
GraphsOf(visualizations) == SelectSeq(visualizations, LAMBDA v : v.type = "network")

TitleOr(specTitle, fallback) == IF specTitle = "" THEN fallback ELSE specTitle

ChartTabs(msgId, charts) ==
  [i \in 1..Len(charts) |->
     [id |-> <<msgId, "chart", i - 1>>,
      title |-> TitleOr(charts[i].title, "Chart " \o ToString(i)),
      vizType |-> "chart", spec |-> charts[i]]]

GraphTabs(msgId, graphs) ==
  [i \in 1..Len(graphs) |->
     [id |-> <<msgId, "graph", i - 1>>,
      title |-> TitleOr(graphs[i].title, "Graph " \o ToString(i)),
      vizType |-> "graph", spec |-> graphs[i]]]

OptSeq(o) == IF o = None THEN <<>> ELSE o[1]

RECURSIVE buildVizTabs(_)
buildVizTabs(messages) ==
  IF messages = <<>> THEN <<>>
  ELSE LET msg == Head(messages) IN
       (IF msg.role # "assistant" THEN <<>>
        ELSE ChartTabs(msg.id, OptSeq(msg.charts)) \o GraphTabs(msg.id, OptSeq(msg.graphs)))
       \o buildVizTabs(Tail(messages))

RECURSIVE findLastQueryResult(_)
findLastQueryResult(messages) ==
  IF messages = <<>> THEN None
  ELSE LET msg == Last(messages) IN
       IF msg.role = "assistant" /\ Len(OptSeq(msg.queryResults)) > 0
       THEN Some(Last(OptSeq(msg.queryResults)))
       ELSE findLastQueryResult(SubSeq(messages, 1, Len(messages) - 1))

\* ---------------------------------------------------------------- initial state
InitialStore ==
  /\ session = None
  /\ isLoading = FALSE
  /\ isSending = FALSE
  /\ sendStartedAt = None
  /\ error = None
  /\ isUploading = FALSE
  /\ activeTab = "viz"
  /\ visualizationTabs = <<>>
  /\ activeVizTabIndex = None
  /\ currentVisualization = None
  /\ currentQueryResult = None
  /\ activeDataView = "preview"
  /\ sessionDatasets = <<>>

ClientInit ==
  /\ mounted = FALSE
  /\ InitialStore
  /\ calls = <<>>
  /\ now = 1
  /\ stored = <<>>
  /\ messageSeq = 0
  /\ attached = <<>>

\* ---------------------------------------------------------------- calls
\* One record per asynchronous store call: what its closure captured when it
\* started (session, tempUserMessage) and how far it has got.
Call(op, pc, captured, content, temp) ==
  [op |-> op, pc |-> pc, session |-> captured, content |-> content,
   temp |-> temp, startedAt |-> now, reply |-> None, outcome |-> "pending"]

NoMessage == Msg(<<"none", 0>>, "system", "", 0)
NoSession == [id |-> "", messages |-> <<>>]

CallsOf(op) == {c \in DOMAIN calls : calls[c].op = op}
InFlight == {c \in DOMAIN calls : calls[c].pc # "done"}

CanStart == Len(calls) < MaxCalls

\* A call that has returned: its closure is gone, what is kept is how it
\* ended and the ids of the messages it wrote last.
Done(call, outcome, ids) ==
  [op |-> call.op, pc |-> "done", session |-> NoSession, content |-> "",
   temp |-> NoMessage, startedAt |-> 0, reply |-> ids, outcome |-> outcome]

Finish(c, outcome, ids) ==
  calls' = [calls EXCEPT ![c] = Done(@, outcome, ids)]

\* ---------------------------------------------------------------- server
\* POST /api/chat.  The backend runs the turn, persists the user and the
\* assistant message and answers with a ChatResponse, or answers non-2xx.
ChatResponse(n, visualizations, toolCalls, queryResults) ==
  [ok |-> TRUE, messageId |-> <<"msg", n>>, response |-> "answer",
   visualizations |-> visualizations, toolCalls |-> toolCalls,
   queryResults |-> queryResults, error |-> ""]

PersistedTurn(content, r) ==
  << Msg(<<"user", r.messageId[2]>>, "user", content, now),
     [Msg(r.messageId, "assistant", r.response, now) EXCEPT
        !.charts = NonEmptyOrUndefined(ChartsOf(r.visualizations)),
        !.graphs = NonEmptyOrUndefined(GraphsOf(r.visualizations)),
        !.toolCalls = NonEmptyOrUndefined(r.toolCalls),
        !.queryResults = NonEmptyOrUndefined(r.queryResults)] >>

\* ---------------------------------------------------------------- store: loadSession
loadSession(id) ==
  /\ isLoading' = TRUE
  /\ error' = None
  /\ calls' = Append(calls, Call("loadSession", "request", NoSession, id, NoMessage))
  /\ UNCHANGED <<session, isSending, sendStartedAt, isUploading, activeTab,
                 visualizationTabs, activeVizTabIndex, currentVisualization,
                 currentQueryResult, activeDataView, sessionDatasets>>

LoadSessionOk(c) ==
  /\ calls[c].op = "loadSession" /\ calls[c].pc = "request"
  /\ LET tabs == buildVizTabs(stored) IN
     /\ session' = Some([id |-> calls[c].content, messages |-> stored])
     /\ isLoading' = FALSE
     /\ visualizationTabs' = tabs
     /\ activeVizTabIndex' = IF Len(tabs) > 0 THEN Some(Len(tabs) - 1) ELSE None
     /\ currentVisualization' = IF Len(tabs) > 0 THEN Some(Last(tabs).spec) ELSE None
     /\ currentQueryResult' = findLastQueryResult(stored)
  /\ Finish(c, "ok", <<>>)
  /\ UNCHANGED <<mounted, isSending, sendStartedAt, error, isUploading,
                 activeTab, activeDataView, sessionDatasets, now, serverVars>>
  /\ UNCHANGED <<turnVars, sideVars>>

LoadSessionCatch(c) ==
  /\ calls[c].op = "loadSession" /\ calls[c].pc = "request"
  /\ isLoading' = FALSE
  /\ error' = Some(DefaultLoadError)
  /\ Finish(c, "failed", <<>>)
  /\ UNCHANGED <<mounted, session, isSending, sendStartedAt, isUploading,
                 activeTab, visualizationTabs, activeVizTabIndex,
                 currentVisualization, currentQueryResult, activeDataView,
                 sessionDatasets, now, serverVars>>
  /\ UNCHANGED <<turnVars, sideVars>>

\* ---------------------------------------------------------------- store: sendMessage
TempUserMessage(content) == Msg(<<"temp", now>>, "user", content, now)

\* sendMessage up to its await: the flag, the optimistic message, the request.
sendMessage(content) ==
  /\ session # None
  /\ LET s == session[1]
         temp == TempUserMessage(content) IN
     /\ isSending' = TRUE
     /\ sendStartedAt' = Some(now)
     /\ error' = None
     /\ session' = Some([s EXCEPT !.messages = Append(s.messages, temp)])
     /\ calls' = Append(calls, Call("sendMessage", "request", s, content, temp))
  /\ UNCHANGED <<isLoading, isUploading, activeTab, visualizationTabs,
                 activeVizTabIndex, currentVisualization, currentQueryResult,
                 activeDataView, sessionDatasets>>

UserMessage(content, r) == Msg(<<"user", r.messageId[2]>>, "user", content, now)

\* Mutant: toolCalls is stored without the length test.
AssistantToolCalls_keepEmpty(r) == Some(r.toolCalls)

AssistantToolCalls(r) == NonEmptyOrUndefined(r.toolCalls)

AssistantMessage(r) ==
  [Msg(r.messageId, "assistant", r.response, now) EXCEPT
     !.charts = NonEmptyOrUndefined(ChartsOf(r.visualizations)),
     !.graphs = NonEmptyOrUndefined(GraphsOf(r.visualizations)),
     !.toolCalls = AssistantToolCalls(r),
     !.queryResults = NonEmptyOrUndefined(r.queryResults)]

\* Mutant: the confirmed pair is put in front of the earlier messages.
SuccessMessages_front(call, r) ==
  <<UserMessage(call.content, r), AssistantMessage(r)>>
    \o SelectSeq(call.session.messages, LAMBDA m : m.id # call.temp.id)

\* The message list the success branch writes: the captured list without the
\* placeholder, then the confirmed user message and the reply.
SuccessMessages(call, r) ==
  SelectSeq(call.session.messages, LAMBDA m : m.id # call.temp.id)
    \o <<UserMessage(call.content, r), AssistantMessage(r)>>

\* The chat request resolved: the backend ran turn t, persisted its two
\* messages and answered 2xx; the rest of the try block runs.
SendMessageOk(c, t) ==
  /\ calls[c].op = "sendMessage" /\ calls[c].pc = "request"
  /\ now > calls[c].startedAt
  /\ LET call == calls[c]
         r == ChatResponse(messageSeq + 1, t.visualizations, t.toolCalls,
                           t.queryResults)
         updatedTabs == visualizationTabs
                          \o ChartTabs(r.messageId, ChartsOf(r.visualizations))
                          \o GraphTabs(r.messageId, GraphsOf(r.visualizations))
         newActiveIndex == IF Len(updatedTabs) > 0 THEN Some(Len(updatedTabs) - 1) ELSE None
         newQueryResult == IF Len(r.queryResults) > 0
                           THEN Some(Last(r.queryResults))
                           ELSE currentQueryResult
     IN
     /\ session' = Some([call.session EXCEPT !.messages = SuccessMessages(call, r)])
     /\ isSending' = FALSE
     /\ sendStartedAt' = None
     /\ visualizationTabs' = updatedTabs
     /\ activeVizTabIndex' = newActiveIndex
     /\ currentVisualization' = IF newActiveIndex # None
                                THEN Some(Last(updatedTabs).spec)
                                ELSE currentVisualization
     /\ currentQueryResult' = newQueryResult
     /\ activeDataView' = IF newQueryResult # None THEN "query" ELSE activeDataView
     /\ stored' = stored \o PersistedTurn(call.content, r)
     /\ messageSeq' = messageSeq + 1
     /\ Finish(c, "ok", <<UserMessage(call.content, r).id, r.messageId>>)
  /\ UNCHANGED <<mounted, isLoading, error, isUploading, activeTab,
                 sessionDatasets, now, attached>>
  /\ UNCHANGED <<turnVars, sideVars>>

ErrorChatMessage(text) ==
  [Msg(<<"error", now>>, "assistant", text, now) EXCEPT !.isError = TRUE]

\* Mutant: the catch branch appends the error without the user's message.
FailureMessages_dropUser(call, text) ==
  call.session.messages \o <<ErrorChatMessage(text)>>

\* The message list the catch branch writes.
FailureMessages(call, text) ==
  call.session.messages \o <<call.temp, ErrorChatMessage(text)>>

\* The chat request rejected (non-2xx or network error) with Error(text).
SendMessageCatch(c, text) ==
  /\ calls[c].op = "sendMessage" /\ calls[c].pc = "request"
  /\ now > calls[c].startedAt
  /\ LET call == calls[c]
         errorMessage == text IN
     /\ isSending' = FALSE
     /\ sendStartedAt' = None
     /\ error' = Some(errorMessage)
     /\ session' = Some([call.session EXCEPT !.messages = FailureMessages(call, errorMessage)])
  /\ Finish(c, "failed", <<calls[c].temp.id, ErrorChatMessage(text).id>>)
  /\ UNCHANGED <<mounted, isLoading, isUploading, activeTab,
                 visualizationTabs, activeVizTabIndex, currentVisualization,
                 currentQueryResult, activeDataView, sessionDatasets, now,
                 serverVars>>
  /\ UNCHANGED <<turnVars, sideVars>>

\* fetch() carries no AbortSignal and no timeout: a request the backend never
\* answers never settles, and neither branch of sendMessage runs for it.
SendMessageHangs(c) ==
  /\ calls[c].op = "sendMessage" /\ calls[c].pc = "request"
  /\ calls' = [calls EXCEPT ![c] = [@ EXCEPT !.pc = "hung"]]
  /\ UNCHANGED <<mounted, storeVars, now, serverVars>>
  /\ UNCHANGED <<turnVars, sideVars>>

\* ---------------------------------------------------------------- store: reset
reset ==
  /\ session' = None
  /\ isLoading' = FALSE
  /\ isSending' = FALSE
  /\ sendStartedAt' = None
  /\ error' = None
  /\ isUploading' = FALSE
  /\ activeTab' = "viz"
  /\ visualizationTabs' = <<>>
  /\ activeVizTabIndex' = None
  /\ currentVisualization' = None
  /\ currentQueryResult' = None
  /\ activeDataView' = "preview"
  /\ sessionDatasets' = <<>>

\* ---------------------------------------------------------------- store: uploadCSV
uploadCSV ==
  /\ session # None
  /\ isUploading' = TRUE
  /\ error' = None
  /\ calls' = Append(calls, Call("uploadCSV", "uploadDataset", session[1],
                                 "orders.csv", NoMessage))
  /\ UNCHANGED <<session, isLoading, isSending, sendStartedAt, activeTab,
                 visualizationTabs, activeVizTabIndex, currentVisualization,
                 currentQueryResult, activeDataView, sessionDatasets>>

buildUploadSummary(dataset) ==
  [userContent |-> UploadUserContent,
   assistantContent |-> IF Len(dataset.suggested_questions) > 0
                        THEN UploadWithQuestions ELSE UploadPlain]

UploadMessages(call, dataset) ==
  LET summary == buildUploadSummary(dataset) IN
  call.session.messages
    \o << Msg(<<"upload-user", now>>, "user", summary.userContent, now),
          Msg(<<"upload-assistant", now>>, "assistant", summary.assistantContent, now) >>

UploadStages == {"uploadDataset", "attachDatasetToSession", "listSessionDatasets"}

\* uploadDataset, attachDatasetToSession and listSessionDatasets all resolved
\* (the store does nothing between them): the rest of the try block.
UploadCSVOk(c, qs) ==
  /\ calls[c].op = "uploadCSV" /\ calls[c].pc = "uploadDataset"
  /\ LET dataset == [id |-> c, suggested_questions |-> qs] IN
     /\ attached' = Append(attached, dataset.id)
     /\ sessionDatasets' = attached'
     /\ isUploading' = FALSE
     /\ activeTab' = "data"
     /\ session' = Some([calls[c].session EXCEPT
                           !.messages = UploadMessages(calls[c], dataset)])
  /\ Finish(c, "ok", <<<<"upload-user", now>>, <<"upload-assistant", now>>>>)
  /\ UNCHANGED <<mounted, isLoading, isSending, sendStartedAt, error,
                 visualizationTabs, activeVizTabIndex, currentVisualization,
                 currentQueryResult, activeDataView, now, stored, messageSeq>>
  /\ UNCHANGED <<turnVars, sideVars>>

\* Mutant: the catch block also switches to the data tab.
UploadCSVCatch_switchTab(c, stage) ==
  /\ calls[c].op = "uploadCSV" /\ calls[c].pc = "uploadDataset"
  /\ attached' = IF stage = "listSessionDatasets" THEN Append(attached, c) ELSE attached
  /\ error' = Some(DefaultUploadError)
  /\ isUploading' = FALSE
  /\ activeTab' = "data"
  /\ Finish(c, "failed", <<>>)
  /\ UNCHANGED <<mounted, session, isLoading, isSending, sendStartedAt,
                 visualizationTabs, activeVizTabIndex,
                 currentVisualization, currentQueryResult, activeDataView,
                 sessionDatasets, now, stored, messageSeq>>
  /\ UNCHANGED <<turnVars, sideVars>>

\* One of the three awaited calls rejected; the dataset is attached on the
\* server when it was the listing that failed.
UploadCSVCatch(c, stage) ==
  /\ calls[c].op = "uploadCSV" /\ calls[c].pc = "uploadDataset"
  /\ attached' = IF stage = "listSessionDatasets" THEN Append(attached, c) ELSE attached
  /\ error' = Some(DefaultUploadError)
  /\ isUploading' = FALSE
  /\ Finish(c, "failed", <<>>)
  /\ UNCHANGED <<mounted, session, isLoading, isSending, sendStartedAt,
                 activeTab, visualizationTabs, activeVizTabIndex,
                 currentVisualization, currentQueryResult, activeDataView,
                 sessionDatasets, now, stored, messageSeq>>
  /\ UNCHANGED <<turnVars, sideVars>>

\* ---------------------------------------------------------------- workspace page
\* The header and the chat panel are rendered.
Rendered == mounted /\ ~isLoading /\ session # None

\* WorkspacePage: the count shown on the Logs button of the header.
RECURSIVE toolCallCountFrom(_, _)
toolCallCountFrom(messages, i) ==
  IF i < 1 THEN 0
  ELSE IF messages[i].role = "assistant" /\ messages[i].toolCalls # None
       THEN Len(messages[i].toolCalls[1])
       ELSE toolCallCountFrom(messages, i - 1)

toolCallCount ==
  IF session = None THEN 0
  ELSE toolCallCountFrom(session[1].messages, Len(session[1].messages))

\* Mount effect: loadSession(sessionId).
Mount ==
  /\ ~mounted /\ CanStart
  /\ mounted' = TRUE
  /\ loadSession(SessionId)
  /\ UNCHANGED <<now, serverVars>>
  /\ UNCHANGED <<turnVars, sideVars>>

\* Cleanup of the mount effect: reset().
Unmount ==
  /\ mounted
  /\ mounted' = FALSE
  /\ reset
  /\ UNCHANGED <<calls, now, serverVars>>
  /\ UNCHANGED <<turnVars, sideVars>>

\* ChatPanel: form submit and the Enter key.
HandleSubmit ==
  /\ Rendered /\ CanStart
  /\ ~isSending
  /\ \E input \in UserInputs : sendMessage(input)
  /\ UNCHANGED <<mounted, now, serverVars>>
  /\ UNCHANGED <<turnVars, sideVars>>

RenderedAskLinks ==
  UNION {AskLinks(session[1].messages[i].content) :
           i \in {j \in DOMAIN session[1].messages :
                    /\ session[1].messages[j].role = "assistant"
                    /\ ~session[1].messages[j].isError}}

\* ChatPanel: click on a suggested question.
HandleMessagesClick ==
  /\ Rendered /\ CanStart
  /\ ~isSending
  /\ \E text \in RenderedAskLinks : sendMessage(text)
  /\ UNCHANGED <<mounted, now, serverVars>>
  /\ UNCHANGED <<turnVars, sideVars>>

\* Header: Export > Generate Report.
HandleExport ==
  /\ Rendered /\ CanStart
  /\ sendMessage(ReportPrompt)
  /\ UNCHANGED <<mounted, now, serverVars>>
  /\ UNCHANGED <<turnVars, sideVars>>

\* ChatPanel: the file input behind the upload button (disabled while uploading).
HandleFileChange ==
  /\ Rendered /\ CanStart
  /\ ~isUploading
  /\ uploadCSV
  /\ UNCHANGED <<mounted, now, serverVars>>
  /\ UNCHANGED <<turnVars, sideVars>>

DataViews == {"preview", "query"}

\* store: switchDataView(view).
switchDataView(view) ==
  /\ activeDataView' = view
  /\ UNCHANGED <<session, isLoading, isSending, sendStartedAt, error, isUploading,
                 activeTab, visualizationTabs, activeVizTabIndex,
                 currentVisualization, currentQueryResult, sessionDatasets>>

\* Data panel: click on the tab of the other data view.
SwitchDataView ==
  /\ Rendered
  /\ \E view \in DataViews \ {activeDataView} : switchDataView(view)
  /\ UNCHANGED <<mounted, calls, now, serverVars>>
  /\ UNCHANGED <<turnVars, sideVars>>

\* Time passes.  Only the ticks that a pending chat request can observe are
\* taken: the clock moves while a request that started at `now` is in flight.
Tick ==
  /\ \E c \in DOMAIN calls :
       calls[c].op = "sendMessage" /\ calls[c].pc = "request" /\ calls[c].startedAt = now
  /\ now' = now + 1
  /\ UNCHANGED <<mounted, storeVars, calls, serverVars>>
  /\ UNCHANGED <<turnVars, sideVars>>

\* ---------------------------------------------------------------- turn orchestrator
\* The agent loop behind POST /api/chat (spec 4.2, 5, 7).  One turn:
\* ASSEMBLING_CONTEXT -> AWAITING_MODEL -> {EXECUTING_TOOL -> AWAITING_MODEL}*
\* -> FINALIZING -> DONE, with FAILED reachable from any non-DONE state.  The
\* provider asks for one tool invocation per response.
IterationCap == 3
\* The number of appends by other writers of the session in one behaviour.
MaxOtherWrites == 2

ToolNames == {"run_sql", "get_schema"}
\* The tools whose executor writes to the session's data (derived tables).
WritingTools == {"run_sql"}
\* What the provider may ask for: a registered tool or one that is not.
RequestedTools == ToolNames \cup {"drop_table"}
RawArgs == {"valid", "missing required field", "wrong type", "value out of enumerated set"}

\* Mutant: the registry accepts every request.
validate_lax(toolName, rawArgs) == "ok"

\* Tool Registry: validate(toolName, rawArgs) is "ok" or the structured error.
validate(toolName, rawArgs) ==
  IF toolName \notin ToolNames THEN "unknown tool"
  ELSE IF rawArgs # "valid" THEN rawArgs
  ELSE "ok"
ExecutorOutcomes == {"ok", "ExecutorError", "timeout"}

TurnUserContent == "q1"
FinalAnswer == "answer"
PartialAnswer == "could not complete, here is partial progress"

\* Mutant: the cap is enforced one tool call late.
CapReached_late == Len(turnToolCalls) >= IterationCap + 1

\* The hard iteration cap: the number of tool calls of the turn has reached it.
CapReached == Len(turnToolCalls) >= IterationCap

\* Mutant: a ToolCall record without the error field.
ToolCall_noError(tool, err) == [tool |-> tool, error |-> None]

\* A ToolCall record (durationMs, input and output are not modelled).
ToolCall(tool, err) == [tool |-> tool, error |-> err]

Observation(tool, err) == [tool |-> tool, error |-> err]

TurnInit ==
  /\ turnState = "ASSEMBLING_CONTEXT"
  /\ invocation = None
  /\ turnToolCalls = <<>>
  /\ observations = <<>>
  /\ executorRuns = <<>>
  /\ turnMessages = <<>>
  /\ failure = None
  /\ answer = None
  /\ sessionData = 0
  /\ sessionStore = <<>>
  /\ storeVersion = 0
  /\ expectedVersion = 0
  /\ appendAttempts = 0

TurnUserMessage == Msg(<<"user", 1>>, "user", TurnUserContent, 0)

TurnAssistantMessage(text) ==
  [Msg(<<"msg", 1>>, "assistant", text, 0) EXCEPT
     !.toolCalls = NonEmptyOrUndefined(turnToolCalls)]

TurnErrorMessage(reason) ==
  [Msg(<<"error", 1>>, "assistant", reason, 0) EXCEPT
     !.isError = TRUE,
     !.toolCalls = NonEmptyOrUndefined(turnToolCalls)]

\* Mutant: an append that stops after the first message.
appendMessages_partial(store, messages) == Append(store, messages[1])

\* Session Store: appendMessages writes the whole list in one step.
appendMessages(store, messages) == store \o messages

PersistenceFailures == {"PersistenceError", "PersistenceConflictError"}

\* Entering FAILED: one error message; the user's message and the error are
\* kept in the session unless it is the Session Store that failed.
Fail(reason) ==
  /\ turnState' = "FAILED"
  /\ failure' = Some(reason)
  /\ invocation' = None
  /\ turnMessages' = Append(turnMessages, TurnErrorMessage(reason))
  /\ IF reason \in PersistenceFailures
     THEN UNCHANGED <<sessionStore, storeVersion>>
     ELSE /\ sessionStore' = appendMessages(sessionStore,
                                <<TurnUserMessage, TurnErrorMessage(reason)>>)
          /\ storeVersion' = storeVersion + 1
  /\ UNCHANGED <<turnToolCalls, observations, executorRuns, answer, sessionData,
                 expectedVersion, appendAttempts>>

AssembleContext ==
  /\ turnState = "ASSEMBLING_CONTEXT"
  /\ turnState' = "AWAITING_MODEL"
  /\ expectedVersion' = storeVersion
  /\ UNCHANGED <<invocation, turnToolCalls, observations, executorRuns,
                 turnMessages, failure, answer, sessionData, sessionStore,
                 storeVersion, appendAttempts, clientVars, sideVars>>

\* The provider returns a final answer.
ModelAnswers ==
  /\ turnState = "AWAITING_MODEL"
  /\ turnState' = "FINALIZING"
  /\ answer' = Some(FinalAnswer)
  /\ UNCHANGED <<invocation, turnToolCalls, observations, executorRuns,
                 turnMessages, failure, sessionData, sessionStore, persistVars, clientVars, sideVars>>

\* The provider requests a tool whose arguments pass validation.
ModelRequestsTool(tool, rawArgs) ==
  /\ turnState = "AWAITING_MODEL"
  /\ validate(tool, rawArgs) = "ok"
  /\ ~CapReached
  /\ turnState' = "EXECUTING_TOOL"
  /\ invocation' = Some(tool)
  /\ UNCHANGED <<turnToolCalls, observations, executorRuns, turnMessages,
                 failure, answer, sessionData, sessionStore, persistVars, clientVars, sideVars>>

\* The provider requests a tool whose arguments fail validation: a ToolCall
\* with error set, no executor.
ModelRequestsInvalid(tool, rawArgs) ==
  /\ turnState = "AWAITING_MODEL"
  /\ validate(tool, rawArgs) # "ok"
  /\ ~CapReached
  /\ turnToolCalls' = Append(turnToolCalls, ToolCall(tool, Some("ValidationError")))
  /\ observations' = Append(observations, Observation(tool, Some("ValidationError")))
  /\ UNCHANGED <<turnState, invocation, executorRuns, turnMessages, failure,
                 answer, sessionData, sessionStore, persistVars, clientVars, sideVars>>

\* The provider requests one more tool beyond the iteration cap: FINALIZING
\* with the degraded answer.
CapExceeded ==
  /\ turnState = "AWAITING_MODEL"
  /\ CapReached
  /\ turnState' = "FINALIZING"
  /\ answer' = Some(PartialAnswer)
  /\ UNCHANGED <<invocation, turnToolCalls, observations, executorRuns,
                 turnMessages, failure, sessionData, sessionStore, persistVars, clientVars, sideVars>>

ProviderFails ==
  /\ turnState = "AWAITING_MODEL"
  /\ Fail("ProviderError")
  /\ UNCHANGED <<clientVars, sideVars>>

ExecutorError(outcome) == IF outcome = "ok" THEN None ELSE Some(outcome)

\* The executor returns, fails or times out: a ToolCall record, the result or
\* the error fed back as an observation, back to the model.
ExecutorReturns(outcome) ==
  /\ turnState = "EXECUTING_TOOL"
  /\ LET tool == invocation[1] IN
     /\ executorRuns' = Append(executorRuns, tool)
     /\ turnToolCalls' = Append(turnToolCalls, ToolCall(tool, ExecutorError(outcome)))
     /\ observations' = Append(observations, Observation(tool, ExecutorError(outcome)))
  /\ sessionData' = IF outcome = "ok" /\ invocation[1] \in WritingTools
                    THEN sessionData + 1 ELSE sessionData
  /\ invocation' = None
  /\ turnState' = "AWAITING_MODEL"
  /\ UNCHANGED <<turnMessages, failure, answer, sessionStore, persistVars, clientVars, sideVars>>

\* The outer timeout of the turn: a partial-progress answer.
OuterTimeout ==
  /\ turnState \in {"AWAITING_MODEL", "EXECUTING_TOOL"}
  /\ turnState' = "FINALIZING"
  /\ invocation' = None
  /\ answer' = Some(PartialAnswer)
  /\ UNCHANGED <<turnToolCalls, observations, executorRuns, turnMessages,
                 failure, sessionData, sessionStore, persistVars, clientVars, sideVars>>

\* Client-initiated cancellation, at either suspension point.
Cancel ==
  /\ turnState \in {"AWAITING_MODEL", "EXECUTING_TOOL"}
  /\ Fail("CancellationError")
  /\ UNCHANGED <<clientVars, sideVars>>

\* FINALIZING: the response is assembled and appendMessages(id, messages,
\* expectedVersion) succeeds: both messages are persisted.
Finalize ==
  /\ turnState = "FINALIZING"
  /\ expectedVersion = storeVersion
  /\ turnState' = "DONE"
  /\ turnMessages' = Append(turnMessages, TurnAssistantMessage(answer[1]))
  /\ sessionStore' = appendMessages(sessionStore,
                        <<TurnUserMessage, TurnAssistantMessage(answer[1])>>)
  /\ storeVersion' = storeVersion + 1
  /\ UNCHANGED <<invocation, turnToolCalls, observations, executorRuns, failure,
                 answer, sessionData, expectedVersion, appendAttempts, clientVars, sideVars>>

\* Mutant: a second retry is allowed.
RetryLimit_two == 1 + 1

\* The number of retries of a conflicting append.
RetryLimit == 1

\* appendMessages answers ConflictError (the version moved on): nothing is
\* written; the orchestrator reads the latest version to retry against it.
AppendConflictRetry ==
  /\ turnState = "FINALIZING"
  /\ expectedVersion # storeVersion
  /\ appendAttempts < RetryLimit
  /\ appendAttempts' = appendAttempts + 1
  /\ expectedVersion' = storeVersion
  /\ UNCHANGED <<turnState, invocation, turnToolCalls, observations, executorRuns,
                 turnMessages, failure, answer, sessionData, sessionStore,
                 storeVersion, clientVars, sideVars>>

\* The retry conflicts again: the turn gives up.
AppendConflictFails ==
  /\ turnState = "FINALIZING"
  /\ expectedVersion # storeVersion
  /\ appendAttempts >= RetryLimit
  /\ Fail("PersistenceConflictError")
  /\ UNCHANGED <<clientVars, sideVars>>

\* Another writer of the same session (a background event log write) appends
\* a system message.
OtherWriterMessage(n) == Msg(<<"event", n>>, "system", "event", 0)

OtherWrites == Len(SelectSeq(sessionStore, LAMBDA m : m.role = "system"))

OtherWriter ==
  /\ OtherWrites < MaxOtherWrites
  /\ sessionStore' = appendMessages(sessionStore, <<OtherWriterMessage(OtherWrites + 1)>>)
  /\ storeVersion' = storeVersion + 1
  /\ UNCHANGED <<turnState, invocation, turnToolCalls, observations, executorRuns,
                 turnMessages, failure, answer, sessionData, expectedVersion,
                 appendAttempts, clientVars, sideVars>>

PersistenceFails ==
  /\ turnState = "FINALIZING"
  /\ Fail("PersistenceError")
  /\ UNCHANGED <<clientVars, sideVars>>

TurnStep ==
  \/ AssembleContext
  \/ ModelAnswers
  \/ \E tool \in RequestedTools, rawArgs \in RawArgs : ModelRequestsTool(tool, rawArgs)
  \/ \E tool \in RequestedTools, rawArgs \in RawArgs : ModelRequestsInvalid(tool, rawArgs)
  \/ CapExceeded
  \/ ProviderFails
  \/ \E outcome \in ExecutorOutcomes : ExecutorReturns(outcome)
  \/ OuterTimeout
  \/ Cancel
  \/ Finalize
  \/ AppendConflictRetry
  \/ AppendConflictFails
  \/ PersistenceFails

TurnNext ==
  \/ TurnStep
  \/ OtherWriter

\* ---------------------------------------------------------------- useInteractionLogger
DEBOUNCE_MS == 500

\* The number of logInteraction calls in one behaviour.
MaxEvents == 3
\* The time the logger is observed for, in steps of half the debounce delay.
MaxLogSteps == 6

TimeStep == DEBOUNCE_MS \div 2

EventTypes == {"node_click", "zoom"}
LoggerSessions == {None, Some("s1"), Some("s2")}

LoggerInit ==
  /\ loggerMounted = FALSE
  /\ sessionIdProp = None
  /\ pendingEvents = <<>>
  /\ timeoutRef = None
  /\ timerArmed = FALSE
  /\ lastSessionId = None
  /\ systemEvents = <<>>
  /\ logNow = 0
  /\ logged = <<>>
  /\ lastLoggedAt = None
  /\ sessionSteady = FALSE

CountOf(events, type) == Len(SelectSeq(events, LAMBDA e : e.type = type))

\* summarizeEvents: the number of events of each type that occurs.
summarizeEvents(events) ==
  [type \in {events[i].type : i \in DOMAIN events} |-> CountOf(events, type)]

\* The api.logSystemEvent request of a flush.
SystemEvent(sid, events) ==
  [sessionId |-> sid, type |-> "user_interaction",
   summary |-> summarizeEvents(events), events |-> events]

\* flush(): what it sends and what it leaves pending.
Flushes == lastSessionId # None /\ Len(pendingEvents) > 0

flush ==
  IF Flushes
  THEN /\ systemEvents' = Append(systemEvents, SystemEvent(lastSessionId[1], pendingEvents))
       /\ pendingEvents' = <<>>
  ELSE UNCHANGED <<systemEvents, pendingEvents>>

\* The component that uses the hook mounts: the refs are created.
LoggerMount(sid) ==
  /\ ~loggerMounted /\ logged = <<>> /\ systemEvents = <<>> /\ logNow = 0
  /\ loggerMounted' = TRUE
  /\ sessionIdProp' = sid
  /\ lastSessionId' = sid
  /\ sessionSteady' = (sid # None)
  /\ UNCHANGED <<pendingEvents, timeoutRef, timerArmed, systemEvents, logNow,
                 logged, lastLoggedAt>>
  /\ UNCHANGED loggerRest

\* Mutant: the timer is due at once.
DebounceDeadline_now(t) == t

DebounceDeadline(t) == t + DEBOUNCE_MS

\* A call continues the run of the previous call when it comes less than
\* DEBOUNCE_MS after it.
ContinuesRun == lastLoggedAt # None /\ logNow - lastLoggedAt[1] < DEBOUNCE_MS

\* logInteraction(event): push, clear the timer, set it again.
LogInteraction(type) ==
  /\ loggerMounted
  /\ Len(logged) < MaxEvents
  /\ LET event == [type |-> type, n |-> Len(logged) + 1] IN
     pendingEvents' = Append(pendingEvents, event)
  /\ logged' = Append(logged, IF ContinuesRun THEN Last(logged)
                               ELSE IF logged = <<>> THEN 1 ELSE Last(logged) + 1)
  /\ timeoutRef' = Some(DebounceDeadline(logNow))
  /\ timerArmed' = TRUE
  /\ lastLoggedAt' = Some(logNow)
  /\ UNCHANGED <<loggerMounted, sessionIdProp, lastSessionId, systemEvents, logNow,
                 sessionSteady>>
  /\ UNCHANGED loggerRest

TimerDue == timerArmed /\ logNow >= timeoutRef[1]

\* The timer fires: flush().  timeoutRef.current keeps the id of the fired timer.
TimerFires ==
  /\ TimerDue
  /\ timerArmed' = FALSE
  /\ flush
  /\ UNCHANGED <<loggerMounted, sessionIdProp, timeoutRef, lastSessionId, logNow,
                 logged, lastLoggedAt, sessionSteady>>
  /\ UNCHANGED loggerRest

\* The sessionId argument changes; the effect flushes under the old id and
\* then stores the new one.
SessionChanges(sid) ==
  /\ loggerMounted
  /\ sid # sessionIdProp
  /\ sessionIdProp' = sid
  /\ flush
  /\ lastSessionId' = sid
  /\ sessionSteady' = FALSE
  /\ UNCHANGED <<loggerMounted, timeoutRef, timerArmed, logNow, logged, lastLoggedAt>>
  /\ UNCHANGED loggerRest

\* Cleanup on unmount: the timer is cleared and what is pending is sent.
LoggerUnmount ==
  /\ loggerMounted
  /\ loggerMounted' = FALSE
  /\ timeoutRef' = IF timeoutRef # None THEN None ELSE timeoutRef
  /\ timerArmed' = FALSE
  /\ flush
  /\ UNCHANGED <<sessionIdProp, lastSessionId, logNow, logged, lastLoggedAt,
                 sessionSteady>>
  /\ UNCHANGED loggerRest

\* Time passes; a timer that is due fires before time moves on.
LogTick ==
  /\ loggerMounted
  /\ ~TimerDue
  /\ logNow < MaxLogSteps * TimeStep
  /\ logNow' = logNow + TimeStep
  /\ UNCHANGED <<loggerMounted, sessionIdProp, pendingEvents, timeoutRef, timerArmed,
                 lastSessionId, systemEvents, logged, lastLoggedAt, sessionSteady>>
  /\ UNCHANGED loggerRest

LoggerNext ==
  \/ \E sid \in LoggerSessions : LoggerMount(sid)
  \/ \E type \in EventTypes : LogInteraction(type)
  \/ TimerFires
  \/ \E sid \in LoggerSessions : SessionChanges(sid)
  \/ LoggerUnmount
  \/ LogTick

\* ---------------------------------------------------------------- model store
\* The number of loadModels calls in one behaviour.
MaxModelLoads == 2

InitialDefaultModel == "vertex-gemini-3-pro"
\* What localStorage holds for selectedModel when the store is created.
PersistedSelections == {"", "claude", "retired"}
\* What GET /api/models answers: the keys of data.models and data.default.
ModelLists == {<<>>, <<"claude">>, <<"claude", "gemini">>}
ServerDefaults == {"", "gemini", "retired"}
DefaultModelsError == "Failed to fetch models"

ModelInit ==
  /\ selectedModel = ""
  /\ availableModels = <<>>
  /\ defaultModel = InitialDefaultModel
  /\ modelIsLoading = FALSE
  /\ modelError = None
  /\ modelLoads = 0
  /\ modelReply = "created"

Keys(models) == {models[i] : i \in DOMAIN models}

\* data.default || data.models[0]?.key || ""
FallbackSelection(data) ==
  IF data.default # "" THEN data.default
  ELSE IF Len(data.models) > 0 THEN data.models[1]
  ELSE ""

\* The selection loadModels stores.
NewSelection(current, data) ==
  IF current = "" \/ current \notin Keys(data.models)
  THEN FallbackSelection(data)
  ELSE current

\* persist middleware: the stored selectedModel is merged into the new store.
Rehydrate(persisted) ==
  /\ modelReply = "created"
  /\ selectedModel' = persisted
  /\ modelReply' = "none"
  /\ UNCHANGED <<availableModels, defaultModel, modelIsLoading, modelError, modelLoads>>
  /\ UNCHANGED modelRest

\* setSelectedModel(model.key), from the list of the selector.
SetSelectedModel(model) ==
  /\ model \in Keys(availableModels)
  /\ selectedModel' = model
  /\ UNCHANGED <<availableModels, defaultModel, modelIsLoading, modelError,
                 modelLoads, modelReply>>
  /\ UNCHANGED modelRest

\* loadModels up to its await.
LoadModels ==
  /\ modelReply # "created"
  /\ modelLoads < MaxModelLoads
  /\ modelIsLoading' = TRUE
  /\ modelError' = None
  /\ modelLoads' = modelLoads + 1
  /\ UNCHANGED <<selectedModel, availableModels, defaultModel, modelReply>>
  /\ UNCHANGED modelRest

\* The request answered 2xx with data: the rest of the try block.
LoadModelsOk(data) ==
  /\ modelLoads > 0
  /\ availableModels' = data.models
  /\ defaultModel' = data.default
  /\ selectedModel' = NewSelection(selectedModel, data)
  /\ modelIsLoading' = FALSE
  /\ modelLoads' = modelLoads - 1
  /\ modelReply' = "ok"
  /\ UNCHANGED modelError
  /\ UNCHANGED modelRest

\* The request failed or answered non-2xx.
LoadModelsCatch ==
  /\ modelLoads > 0
  /\ modelIsLoading' = FALSE
  /\ modelError' = Some(DefaultModelsError)
  /\ modelLoads' = modelLoads - 1
  /\ modelReply' = "failed"
  /\ UNCHANGED <<selectedModel, availableModels, defaultModel>>
  /\ UNCHANGED modelRest

ModelNext ==
  \/ \E persisted \in PersistedSelections : Rehydrate(persisted)
  \/ LoadModels
  \/ \E models \in ModelLists, default \in ServerDefaults :
       LoadModelsOk([models |-> models, default |-> default])
  \/ LoadModelsCatch
  \/ \E model \in Keys(availableModels) : SetSelectedModel(model)

\* ---------------------------------------------------------------- ChatPanel: groupMessages
\* The length of the message lists that are grouped.
MaxGroupLen == 4

Roles == {"user", "assistant", "system"}

\* The message lists of length at most MaxGroupLen; message i has id i.
MessageLists ==
  UNION {[1..n -> Roles] : n \in 0..MaxGroupLen}

AsMessages(roles) == [i \in DOMAIN roles |-> [id |-> i, role |-> roles[i]]]

GroupInit ==
  /\ groupInput = <<>>
  /\ groups = None

\* Mutant: the inner loop stops after one message.
RECURSIVE SystemRunEnd_one(_, _)
SystemRunEnd_one(messages, i) == i + 1

\* The inner while loop: the index after the system messages that start at i.
RECURSIVE SystemRunEnd(_, _)
SystemRunEnd(messages, i) ==
  IF i <= Len(messages) /\ messages[i].role = "system"
  THEN SystemRunEnd(messages, i + 1)
  ELSE i

\* The outer while loop, from index i with the groups pushed so far.
RECURSIVE groupMessagesFrom(_, _, _)
groupMessagesFrom(messages, i, pushed) ==
  IF i > Len(messages) THEN pushed
  ELSE IF messages[i].role = "system"
       THEN LET j == SystemRunEnd(messages, i) IN
            groupMessagesFrom(messages, j,
              Append(pushed, [type |-> "system", messages |-> SubSeq(messages, i, j - 1)]))
       ELSE groupMessagesFrom(messages, i + 1,
              Append(pushed, [type |-> "message", message |-> messages[i]]))

groupMessages(messages) == groupMessagesFrom(messages, 1, <<>>)

\* ChatPanel renders with a message list.
RenderChatPanel(messages) ==
  /\ groupInput' = messages
  /\ groups' = Some(groupMessages(messages))
  /\ UNCHANGED groupRest

GroupNext ==
  \E roles \in MessageLists : RenderChatPanel(AsMessages(roles))

\* ---------------------------------------------------------------- EditableTitle
\* The handleSave calls of one behaviour.
MaxSaves == 2

\* trimmed.length > 100
MaxTitleLength == 100

\* A string is its text without surrounding white space (core) and whether it
\* is surrounded by white space (pad): one blank on each side.
Cores == {"", "A", "B", "H", "L"}

CoreLength(core) ==
  CASE core = "" -> 0
    [] core = "A" -> 5
    [] core = "B" -> 7
    [] core = "H" -> MaxTitleLength
    [] core = "L" -> MaxTitleLength + 1

Strings == [core : Cores, pad : BOOLEAN]

Str(core) == [core |-> core, pad |-> FALSE]

length(str) == CoreLength(str.core) + (IF str.pad THEN 2 ELSE 0)

\* String.prototype.trim
trim(str) == [str EXCEPT !.pad = FALSE]

\* What the input lets the user type: maxLength={100}.
Typeable == {str \in Strings : length(str) <= MaxTitleLength}

\* What generateSessionTitle may answer.
GeneratedTitles == {str \in Strings : str.core # ""}

InitialTitle == Str("A")

EmptyTitleError == "Title cannot be empty"
LongTitleError == "Title must be 100 characters or less"
SaveError == "Failed to save"
GenerateError == "Failed to generate"

TitleInit ==
  /\ sessionName = InitialTitle
  /\ capturedName = None
  /\ mode = "view"
  /\ title = InitialTitle
  /\ editValue = InitialTitle
  /\ titleError = None
  /\ saving = None
  /\ serverName = InitialTitle
  /\ onTitleChangeCalls = <<>>

\* The store sets session.name to name; EditableTitle renders with the new
\* initialTitle and, when it differs from the old one, the sync effect runs after
\* the state updates (newTitle, newEdit) of the handler that caused the render.
SetSessionName(name, newTitle, newEdit) ==
  /\ sessionName' = name
  /\ title' = IF name # sessionName THEN name ELSE newTitle
  /\ editValue' = IF name # sessionName THEN name ELSE newEdit

\* The title button of view mode.
ClickTitle ==
  /\ mode = "view"
  /\ mode' = "edit"
  /\ UNCHANGED <<sessionName, capturedName, title, editValue, titleError, saving,
                 serverName, onTitleChangeCalls, titleRest>>

\* onChange of the input (disabled while saving).
ChangeInput(value) ==
  /\ mode = "edit"
  /\ editValue' = value
  /\ titleError' = None
  /\ UNCHANGED <<sessionName, capturedName, mode, title, saving, serverName,
                 onTitleChangeCalls, titleRest>>

\* handleSave up to its await: the save button or Enter (disabled while saving).
HandleSave ==
  /\ mode = "edit"
  /\ Len(onTitleChangeCalls) + (IF saving = None THEN 0 ELSE 1) < MaxSaves
  /\ LET trimmed == trim(editValue) IN
     IF trimmed = Str("")
     THEN /\ titleError' = Some(EmptyTitleError)
          /\ UNCHANGED <<mode, saving>>
     ELSE IF length(trimmed) > MaxTitleLength
     THEN /\ titleError' = Some(LongTitleError)
          /\ UNCHANGED <<mode, saving>>
     ELSE IF trimmed = title
     THEN /\ mode' = "view"
          /\ titleError' = None
          /\ UNCHANGED saving
     ELSE /\ mode' = "saving"
          /\ titleError' = None
          /\ saving' = Some([name |-> trimmed, title |-> title])
  /\ UNCHANGED <<sessionName, capturedName, title, editValue, serverName,
                 onTitleChangeCalls, titleRest>>

\* api.updateSession succeeds: setTitle, onTitleChange (updateSessionName), view.
SaveOk ==
  /\ saving # None
  /\ LET trimmed == saving[1].name IN
     /\ serverName' = trimmed
     /\ onTitleChangeCalls' = Append(onTitleChangeCalls, trimmed)
     /\ SetSessionName(trimmed, trimmed, editValue)
  /\ mode' = "view"
  /\ saving' = None
  /\ UNCHANGED <<capturedName, titleError, titleRest>>

\* api.updateSession throws: the catch block, with the title of the render in
\* which handleSave was called.
SaveCatch ==
  /\ saving # None
  /\ titleError' = Some(SaveError)
  /\ editValue' = saving[1].title
  /\ mode' = "edit"
  /\ saving' = None
  /\ UNCHANGED <<sessionName, capturedName, title, serverName, onTitleChangeCalls,
                 titleRest>>

\* The cancel button or Escape (disabled while saving).
HandleCancel ==
  /\ mode = "edit"
  /\ editValue' = title
  /\ titleError' = None
  /\ mode' = "view"
  /\ UNCHANGED <<sessionName, capturedName, title, saving, serverName,
                 onTitleChangeCalls, titleRest>>

\* handleGenerate up to its await: the generate button of view mode.
HandleGenerate ==
  /\ mode = "view"
  /\ mode' = "generating"
  /\ titleError' = None
  /\ UNCHANGED <<sessionName, capturedName, title, editValue, saving, serverName,
                 onTitleChangeCalls, titleRest>>

GenerateOk(generated) ==
  /\ mode = "generating"
  /\ editValue' = generated
  /\ mode' = "edit"
  /\ UNCHANGED <<sessionName, capturedName, title, titleError, saving, serverName,
                 onTitleChangeCalls, titleRest>>

GenerateCatch ==
  /\ mode = "generating"
  /\ titleError' = Some(GenerateError)
  /\ mode' = "view"
  /\ UNCHANGED <<sessionName, capturedName, title, editValue, saving, serverName,
                 onTitleChangeCalls, titleRest>>

\* sendMessage reads the session (with its name) before its await.
SendCapturesSession ==
  /\ capturedName = None
  /\ capturedName' = Some(sessionName)
  /\ UNCHANGED <<sessionName, mode, title, editValue, titleError, saving, serverName,
                 onTitleChangeCalls, titleRest>>

\* sendMessage settles and sets session to {...session, messages}: the name
\* is the captured one.
SendWritesSession ==
  /\ capturedName # None
  /\ SetSessionName(capturedName[1], title, editValue)
  /\ capturedName' = None
  /\ UNCHANGED <<mode, titleError, saving, serverName, onTitleChangeCalls, titleRest>>

TitleNext ==
  \/ ClickTitle
  \/ \E value \in Typeable : ChangeInput(value)
  \/ HandleSave
  \/ SaveOk
  \/ SaveCatch
  \/ HandleCancel
  \/ HandleGenerate
  \/ \E generated \in GeneratedTitles : GenerateOk(generated)
  \/ GenerateCatch
  \/ SendCapturesSession
  \/ SendWritesSession

\* ---------------------------------------------------------------- resolve-ports.sh
\* The length of the worktree names.
MaxNameLen == 2

ApiPortBase == 8700
WebPortBase == 3700
PortOffsets == 100
MainApiPort == 8787
MainWebPort == 3737

\* The character codes the names are written with: "a", "W", "2", "-".
NameChars == {97, 87, 50, 45}

WorktreeNames == UNION {[1..n -> NameChars] : n \in 1..MaxNameLen}

\* What `git rev-parse --git-dir` answers: the main worktree's .git, or
\* .git/worktrees/<name> of a linked worktree.
GitDirs ==
  {[linked |-> FALSE, name |-> <<>>]} \cup {[linked |-> TRUE, name |-> n] : n \in WorktreeNames}

\* The override variables of the environment: unset, or a port.
PortOverrides == {None, Some(9000)}

PortsInit ==
  /\ portsPc = "start"
  /\ GIT_DIR = [linked |-> FALSE, name |-> <<>>]
  /\ WORKSPACE_NAME = <<>>
  /\ hash_sum = 0
  /\ charIndex = 0
  /\ ORBITAL_API_PORT = None
  /\ ORBITAL_WEB_PORT = None
  /\ ORBITAL_INSTANCE_SUFFIX = None
  /\ ORBITAL_API_PORT_OVERRIDE = None
  /\ ORBITAL_WEB_PORT_OVERRIDE = None

\* The script is sourced in a worktree, with an environment: the test of GIT_DIR
\* and, in a linked worktree, the two assignments before the loop.
DetectWorktree(gitDir, apiOverride, webOverride) ==
  /\ portsPc = "start"
  /\ GIT_DIR' = gitDir
  /\ ORBITAL_API_PORT_OVERRIDE' = apiOverride
  /\ ORBITAL_WEB_PORT_OVERRIDE' = webOverride
  /\ IF gitDir.linked
     THEN /\ WORKSPACE_NAME' = gitDir.name
          /\ hash_sum' = 0
          /\ charIndex' = 0
          /\ portsPc' = "hash"
     ELSE /\ portsPc' = "main"
          /\ UNCHANGED <<WORKSPACE_NAME, hash_sum, charIndex>>
  /\ UNCHANGED <<ORBITAL_API_PORT, ORBITAL_WEB_PORT, ORBITAL_INSTANCE_SUFFIX, portRest>>

\* One round of the for loop.
HashChar ==
  /\ portsPc = "hash"
  /\ charIndex < Len(WORKSPACE_NAME)
  /\ LET ascii == WORKSPACE_NAME[charIndex + 1] IN
     hash_sum' = hash_sum + ascii
  /\ charIndex' = charIndex + 1
  /\ UNCHANGED <<portsPc, GIT_DIR, WORKSPACE_NAME, ORBITAL_API_PORT, ORBITAL_WEB_PORT,
                 ORBITAL_INSTANCE_SUFFIX, ORBITAL_API_PORT_OVERRIDE,
                 ORBITAL_WEB_PORT_OVERRIDE, portRest>>

\* After the loop: the ports of a linked worktree.
LinkedWorktreePorts ==
  /\ portsPc = "hash"
  /\ charIndex >= Len(WORKSPACE_NAME)
  /\ LET port_offset == hash_sum % PortOffsets IN
     /\ ORBITAL_API_PORT' = Some(ApiPortBase + port_offset)
     /\ ORBITAL_WEB_PORT' = Some(WebPortBase + port_offset)
  /\ ORBITAL_INSTANCE_SUFFIX' = Some(<<45>> \o WORKSPACE_NAME)
  /\ portsPc' = "override"
  /\ UNCHANGED <<GIT_DIR, WORKSPACE_NAME, hash_sum, charIndex, ORBITAL_API_PORT_OVERRIDE,
                 ORBITAL_WEB_PORT_OVERRIDE, portRest>>

\* The else branch: the ports of the main worktree.
MainWorktreePorts ==
  /\ portsPc = "main"
  /\ ORBITAL_API_PORT' = Some(MainApiPort)
  /\ ORBITAL_WEB_PORT' = Some(MainWebPort)
  /\ ORBITAL_INSTANCE_SUFFIX' = Some(<<>>)
  /\ portsPc' = "override"
  /\ UNCHANGED <<GIT_DIR, WORKSPACE_NAME, hash_sum, charIndex, ORBITAL_API_PORT_OVERRIDE,
                 ORBITAL_WEB_PORT_OVERRIDE, portRest>>

\* ${ORBITAL_API_PORT_OVERRIDE:-$ORBITAL_API_PORT}
OrDefault(override, value) == IF override # None THEN override ELSE value

ApplyOverrides ==
  /\ portsPc = "override"
  /\ ORBITAL_API_PORT' = OrDefault(ORBITAL_API_PORT_OVERRIDE, ORBITAL_API_PORT)
  /\ ORBITAL_WEB_PORT' = OrDefault(ORBITAL_WEB_PORT_OVERRIDE, ORBITAL_WEB_PORT)
  /\ portsPc' = "done"
  /\ UNCHANGED <<GIT_DIR, WORKSPACE_NAME, hash_sum, charIndex, ORBITAL_INSTANCE_SUFFIX,
                 ORBITAL_API_PORT_OVERRIDE, ORBITAL_WEB_PORT_OVERRIDE, portRest>>

PortsNext ==
  \/ \E gitDir \in GitDirs, apiOverride \in PortOverrides, webOverride \in PortOverrides :
       DetectWorktree(gitDir, apiOverride, webOverride)
  \/ HashChar
  \/ LinkedWorktreePorts
  \/ MainWorktreePorts
  \/ ApplyOverrides

\* ---------------------------------------------------------------- specification
vars == <<clientVars, turnVars, sideVars>>

Init ==
  ClientInit /\ TurnInit /\ LoggerInit /\ ModelInit /\ GroupInit /\ TitleInit /\ PortsInit

Next ==
  \/ Mount
  \/ Unmount
  \/ HandleSubmit
  \/ HandleMessagesClick
  \/ HandleExport
  \/ HandleFileChange
  \/ SwitchDataView
  \/ Tick
  \/ \E c \in DOMAIN calls :
       \/ \E t \in Turns : SendMessageOk(c, t)
       \/ \E text \in SendErrors : SendMessageCatch(c, text)
       \/ SendMessageHangs(c)
       \/ LoadSessionOk(c)
       \/ LoadSessionCatch(c)
       \/ \E qs \in SuggestedQuestionSets : UploadCSVOk(c, qs)
       \/ \E stage \in UploadStages : UploadCSVCatch(c, stage)

Spec == Init /\ [][Next]_vars

\* Every asynchronous continuation that can run does run (the event loop), and
\* time passes; nothing makes the backend answer a request that hangs.
Settle(c) ==
  /\ c \in DOMAIN calls
  /\ \/ \E t \in Turns : SendMessageOk(c, t)
     \/ \E text \in SendErrors : SendMessageCatch(c, text)
     \/ LoadSessionOk(c)
     \/ \E qs \in SuggestedQuestionSets : UploadCSVOk(c, qs)

FairSpec ==
  /\ Init /\ [][Next]_vars
  /\ WF_vars(Tick)
  /\ \A c \in 1..MaxCalls : WF_vars(Settle(c))

\* The operations run one after another: a UI action starts a store call only
\* when no earlier call is in flight, and the page stays mounted.
Idle == InFlight = {}

SeqNext ==
  \/ Idle /\ Mount
  \/ Idle /\ HandleSubmit
  \/ Idle /\ HandleMessagesClick
  \/ Idle /\ HandleExport
  \/ Idle /\ HandleFileChange
  \/ Idle /\ SwitchDataView
  \/ Tick
  \/ \E c \in DOMAIN calls :
       \/ \E t \in Turns : SendMessageOk(c, t)
       \/ \E text \in SendErrors : SendMessageCatch(c, text)
       \/ LoadSessionOk(c)
       \/ LoadSessionCatch(c)
       \/ \E qs \in SuggestedQuestionSets : UploadCSVOk(c, qs)
       \/ \E stage \in UploadStages : UploadCSVCatch(c, stage)

SeqSpec == Init /\ [][SeqNext]_vars

TurnSpec == Init /\ [][TurnNext]_vars

LoggerSpec == Init /\ [][LoggerNext]_vars

ModelSpec == Init /\ [][ModelNext]_vars

GroupSpec == Init /\ [][GroupNext]_vars

TitleSpec == Init /\ [][TitleNext]_vars

PortsSpec == Init /\ [][PortsNext]_vars

\* The orchestrator keeps running the turn: a step that can be taken is taken.
TurnFairSpec == Init /\ [][TurnNext]_vars /\ WF_vars(TurnStep)

\* ---------------------------------------------------------------- observations
Messages == IF session = None THEN <<>> ELSE session[1].messages
Ids(ms) == {ms[i].id : i \in DOMAIN ms}
IsPrefix(a, b) == Len(a) <= Len(b) /\ SubSeq(b, 1, Len(a)) = a
NumSends(cs) == Cardinality({c \in DOMAIN cs : cs[c].op = "sendMessage"})
NumAssistant(ms) == Cardinality({i \in DOMAIN ms : ms[i].role = "assistant"})
NumErrors(ms) == Cardinality({i \in DOMAIN ms : ms[i].isError})

\* The page was mounted once and is still mounted: no reset() has run.
SingleMount == mounted /\ Cardinality(CallsOf("loadSession")) = 1

\* Call c is a sendMessage whose request settles in this step.
Completes(c) == calls[c].op = "sendMessage" /\ calls[c].pc = "request" /\ calls'[c].pc = "done"

\* ---------------------------------------------------------------- claims
\* C1: when the chat request fails, the list that sendMessage writes ends with
\* the user's message (the content that was sent) followed by one assistant
\* message with isError = true that carries the error text; the list holds
\* exactly one error message more than the list the call started from.
C1_FailureKeepsUserMessage ==
  [][\A c \in DOMAIN calls :
       (Completes(c) /\ calls'[c].outcome = "failed") =>
         LET ms == session'[1].messages
             n == Len(ms) IN
         /\ session' # None /\ n >= 2
         /\ ms[n - 1].role = "user" /\ ms[n - 1].content = calls[c].content
         /\ ms[n].role = "assistant" /\ ms[n].isError
         /\ ms[n].content \in SendErrors /\ error' = Some(ms[n].content)
         /\ NumErrors(ms) = NumErrors(calls[c].session.messages) + 1
         /\ IsPrefix(calls[c].session.messages, ms)]_vars

C1_Witness ==
  /\ \E c \in DOMAIN calls : calls[c].op = "sendMessage" /\ calls[c].outcome = "failed"
  /\ Len(Messages) >= 2
  /\ Last(Messages).isError
  /\ Messages[Len(Messages) - 1].role = "user"

\* C2: once every call has completed, the message list holds the messages
\* that each sendMessage and uploadCSV wrote, whatever the order of the replies.
C2_NoClobber ==
  (SingleMount /\ session # None /\ InFlight = {}) =>
    \A c \in CallsOf("sendMessage") \cup CallsOf("uploadCSV") :
      \A k \in DOMAIN calls[c].reply : calls[c].reply[k] \in Ids(Messages)

\* C3: while isSending is true no further chat request is issued.
C3_OneTurnAtATime ==
  [][isSending => NumSends(calls') = NumSends(calls)]_vars

\* C4: after every sendMessage call isSending eventually becomes false and
\* sendStartedAt null.
C4_FlagNeverStuck ==
  (isSending \/ sendStartedAt # None) ~> (~isSending /\ sendStartedAt = None)

\* C5: once every sendMessage that was started has completed successfully, no
\* message id starts with 'temp-' and each turn has its user message
\* 'user-<messageId>' directly followed by the assistant message '<messageId>',
\* exactly once.
AllSendsSucceeded ==
  /\ CallsOf("sendMessage") # {}
  /\ \A c \in CallsOf("sendMessage") : calls[c].pc = "done" /\ calls[c].outcome = "ok"

C5_PlaceholderSuperseded ==
  (SingleMount /\ session # None /\ AllSendsSucceeded) =>
    /\ \A i \in DOMAIN Messages : Messages[i].id[1] # "temp"
    /\ \A c \in CallsOf("sendMessage") :
         /\ Cardinality({i \in DOMAIN Messages : Messages[i].id = calls[c].reply[1]}) = 1
         /\ \E i \in 1..(Len(Messages) - 1) :
              /\ Messages[i].id = calls[c].reply[1] /\ Messages[i].role = "user"
              /\ Messages[i + 1].id = calls[c].reply[2]
              /\ Messages[i + 1].role = "assistant"

\* C6: with the operations run one after another, every step keeps the
\* messages already in the list, in their order, as a prefix of the new list
\* (the placeholder of the turn in progress excepted), and timestamps never
\* decrease along the list.
PendingTemps == {calls[c].temp.id : c \in {d \in CallsOf("sendMessage") : calls[d].pc = "request"}}
Kept(ms) == SelectSeq(ms, LAMBDA m : m.id \notin PendingTemps)
Monotone(ms) == \A i, j \in DOMAIN ms : i < j => ms[i].timestamp <= ms[j].timestamp

C6_AppendOnlyMonotone ==
  /\ [](Monotone(Messages))
  /\ [][(session # None /\ session' # None) =>
          /\ IsPrefix(Kept(session[1].messages), session'[1].messages)
          /\ Len(session'[1].messages) >= Len(session[1].messages)]_vars

C6_Witness ==
  /\ Cardinality({c \in DOMAIN calls : calls[c].op # "loadSession" /\ calls[c].pc = "done"}) >= 2
  /\ Len(Messages) >= 4

\* C7: the toolCalls of every assistant message that answers a turn are the
\* tool invocations the backend executed in that turn, in order; the field is
\* absent exactly when there were none.
ExecutedToolCalls(id) ==
  LET i == CHOOSE j \in DOMAIN stored : stored[j].id = id IN OptSeq(stored[i].toolCalls)

C7_ToolCallsAsExecuted ==
  \A i \in DOMAIN Messages :
    (Messages[i].role = "assistant" /\ Messages[i].id[1] = "msg") =>
      /\ OptSeq(Messages[i].toolCalls) = ExecutedToolCalls(Messages[i].id)
      /\ (Messages[i].toolCalls = None) <=> (ExecutedToolCalls(Messages[i].id) = <<>>)

C7_Witness ==
  /\ \E c \in CallsOf("sendMessage") : calls[c].outcome = "ok"
  /\ Cardinality(CallsOf("loadSession")) = 1
  /\ \E i \in DOMAIN Messages : Messages[i].toolCalls = Some(<<SqlError, SchemaOk>>)

\* C8: after the page has unmounted (reset()), the completion of a request
\* that was pending does not modify the store.
C8_ResetCancelsPending ==
  [][(~mounted /\ \E c \in DOMAIN calls : Completes(c)) => UNCHANGED storeVars]_vars

\* C9 (client part): every sendMessage call adds exactly one assistant-role
\* message to session.messages.
C9_OneAssistantPerSend ==
  [][\A c \in DOMAIN calls :
       (Completes(c) /\ SingleMount) =>
         NumAssistant(session'[1].messages) = NumAssistant(Messages) + 1]_vars

\* C9 (turn part): a turn that reaches DONE has emitted one assistant message,
\* a turn that reaches FAILED one error message, any other turn none.
C9_TurnEmitsOne ==
  /\ turnState = "DONE" =>
       Len(turnMessages) = 1 /\ turnMessages[1].role = "assistant" /\ ~turnMessages[1].isError
  /\ turnState = "FAILED" => Len(turnMessages) = 1 /\ turnMessages[1].isError
  /\ turnState \notin {"DONE", "FAILED"} => turnMessages = <<>>

\* C10: an executor that fails or times out in EXECUTING_TOOL leaves a ToolCall
\* with error set at the end of the log, the same error as the last
\* observation, and the turn in AWAITING_MODEL; the records of the turn stay in
\* execution order; and the turn is FAILED only by a provider or a persistence
\* failure.
ExecutorStep == turnState = "EXECUTING_TOOL" /\ Len(executorRuns') = Len(executorRuns) + 1

ToolFailureHandled ==
  ExecutorStep =>
    /\ turnState' = "AWAITING_MODEL"
    /\ Len(turnToolCalls') = Len(turnToolCalls) + 1
    /\ IsPrefix(turnToolCalls, turnToolCalls')
    /\ Last(turnToolCalls').tool = invocation[1]
    /\ Len(observations') = Len(observations) + 1
    /\ Last(observations').tool = invocation[1]
    /\ Last(observations').error = Last(turnToolCalls').error

LogInOrder ==
  /\ IsPrefix(turnToolCalls, turnToolCalls')
  /\ turnState = "DONE" => turnMessages[1].toolCalls = NonEmptyOrUndefined(turnToolCalls)

C11_TurnTerminates ==
  /\ [](Len(turnToolCalls) <= IterationCap /\ Len(executorRuns) <= IterationCap)
  /\ [][(turnState = "AWAITING_MODEL" /\ Len(turnToolCalls) = IterationCap
          /\ turnState' # "AWAITING_MODEL") =>
          \/ turnState' = "FAILED"
          \/ turnState' = "FINALIZING" /\ answer' \in {Some(FinalAnswer), Some(PartialAnswer)}]_vars
  /\ <>(turnState \in {"DONE", "FAILED"})

C11_Witness ==
  /\ turnState = "DONE"
  /\ Len(executorRuns) = IterationCap
  /\ turnMessages[1].content = PartialAnswer
  /\ Len(OptSeq(turnMessages[1].toolCalls)) = IterationCap

\* C12: a requested invocation that fails validation is recorded as a ToolCall
\* with error set and fed back as an observation; no executor runs for it,
\* nothing is written to the session's data, and the turn stays in
\* AWAITING_MODEL.  The executor runs are exactly the records that are not
\* validation errors, in order, and all of them are of registered tools.
NotValidationError(call) == call.error # Some("ValidationError")

ValidationStep ==
  /\ turnState = "AWAITING_MODEL"
  /\ Len(turnToolCalls') = Len(turnToolCalls) + 1

C12_ValidationFailureNoExecutor ==
  /\ [][ValidationStep =>
          /\ Last(turnToolCalls').error = Some("ValidationError")
          /\ Last(observations') = Last(turnToolCalls')
          /\ executorRuns' = executorRuns
          /\ sessionData' = sessionData
          /\ invocation' = None
          /\ turnState' = "AWAITING_MODEL"]_vars
  /\ [](/\ \A i \in DOMAIN executorRuns : executorRuns[i] \in ToolNames
        /\ Len(executorRuns) = Len(SelectSeq(turnToolCalls, NotValidationError))
        /\ \A i \in DOMAIN executorRuns :
             executorRuns[i] = SelectSeq(turnToolCalls, NotValidationError)[i].tool
        /\ \A i \in DOMAIN turnToolCalls :
             turnToolCalls[i].tool \notin ToolNames => ~NotValidationError(turnToolCalls[i])
        /\ sessionData <= Len(executorRuns))

C12_Witness ==
  /\ turnState = "DONE"
  /\ turnToolCalls = <<ToolCall("drop_table", Some("ValidationError")),
                       ToolCall("run_sql", Some("ValidationError")),
                       ToolCall("run_sql", None)>>
  /\ executorRuns = <<"run_sql">>
  /\ sessionData = 1

\* C13: in every state of the Session Store the user message and the assistant
\* message of a turn are both in the session, the user message directly before
\* the assistant message, or neither is; a turn that has not ended, or that
\* failed in the Session Store, has written neither.
TurnMessagesIn(store) == SelectSeq(store, LAMBDA m : m.role # "system")

PairedAt(store, i) ==
  /\ store[i].role = "user" =>
       i < Len(store) /\ store[i + 1].role = "assistant"
  /\ store[i].role = "assistant" =>
       i > 1 /\ store[i - 1].role = "user"

C13_BothOrNeither ==
  /\ \A i \in DOMAIN sessionStore : PairedAt(sessionStore, i)
  /\ Len(TurnMessagesIn(sessionStore)) \in {0, 2}
  /\ (turnState \notin {"DONE", "FAILED"}) => TurnMessagesIn(sessionStore) = <<>>
  /\ (turnState = "FAILED" /\ failure[1] \in PersistenceFailures) =>
       TurnMessagesIn(sessionStore) = <<>>
  /\ turnState = "DONE" =>
       TurnMessagesIn(sessionStore) = <<TurnUserMessage, turnMessages[1]>>

C13_Witness ==
  /\ turnState = "FAILED"
  /\ failure = Some("CancellationError")
  /\ Len(sessionStore) = 4
  /\ sessionStore[1].role = "system" /\ sessionStore[4].role = "system"
  /\ sessionStore[2] = TurnUserMessage
  /\ sessionStore[3].isError

\* C14: an append that meets a version conflict is retried exactly once
\* against the latest version.  The turn reaches DONE only by an append whose
\* expected version is the current one, and its two messages come after
\* everything the other writer had appended; a second conflict fails the turn
\* with PersistenceConflictError and writes nothing; no step removes or
\* replaces a message of the session.
ConflictStep == turnState = "FINALIZING" /\ expectedVersion # storeVersion

C14_RetryOnceOnConflict ==
  /\ [](appendAttempts <= 1)
  /\ [](failure = Some("PersistenceConflictError") => appendAttempts = 1)
  /\ [][IsPrefix(sessionStore, sessionStore')]_vars
  /\ [][(ConflictStep /\ appendAttempts = 0 /\ turnState' # "FINALIZING") =>
          (turnState' = "FAILED" /\ failure'[1] # "PersistenceConflictError")]_vars
  /\ [][(ConflictStep /\ appendAttempts' # appendAttempts) =>
          /\ appendAttempts' = appendAttempts + 1
          /\ expectedVersion' = storeVersion
          /\ sessionStore' = sessionStore /\ turnState' = "FINALIZING"]_vars
  /\ [][(turnState = "FINALIZING" /\ turnState' = "DONE") =>
          /\ expectedVersion = storeVersion
          /\ sessionStore' = sessionStore \o <<TurnUserMessage, turnMessages'[1]>>
          /\ storeVersion' = storeVersion + 1]_vars
  /\ [][(ConflictStep /\ failure' = Some("PersistenceConflictError")) =>
          /\ appendAttempts = 1
          /\ sessionStore' = sessionStore /\ storeVersion' = storeVersion]_vars

C14_Witness ==
  /\ turnState = "DONE"
  /\ appendAttempts = 1
  /\ Len(sessionStore) = 3
  /\ sessionStore[1] = OtherWriterMessage(1)
  /\ sessionStore[2] = TurnUserMessage
  /\ sessionStore[3] = turnMessages[1]

C14_SecondConflictReached ==
  /\ turnState = "FAILED"
  /\ failure = Some("PersistenceConflictError")
  /\ sessionStore = <<OtherWriterMessage(1), OtherWriterMessage(2)>>

\* C15: once no debounce timer is pending, every run of logInteraction calls
\* (each call less than 500 ms after the previous one) has exactly one
\* api.logSystemEvent request that holds events of the run, and that request
\* holds all the events of the run in the order they were logged.
Runs == {logged[n] : n \in DOMAIN logged}
RunEvents(r) == {n \in DOMAIN logged : logged[n] = r}
RequestsOf(r) ==
  {q \in DOMAIN systemEvents :
     \E i \in DOMAIN systemEvents[q].events : systemEvents[q].events[i].n \in RunEvents(r)}
InOrder(events) == \A i, j \in DOMAIN events : i < j => events[i].n < events[j].n

OneRequest(r) ==
  /\ Cardinality(RequestsOf(r)) = 1
  /\ \A q \in RequestsOf(r) :
       LET ofRun == SelectSeq(systemEvents[q].events, LAMBDA e : e.n \in RunEvents(r)) IN
       /\ {ofRun[i].n : i \in DOMAIN ofRun} = RunEvents(r)
       /\ InOrder(systemEvents[q].events)
       /\ systemEvents[q].type = "user_interaction"

RepliedWithoutQueryResults(c) ==
  /\ Completes(c) /\ calls'[c].outcome = "ok"
  /\ Last(session'[1].messages).queryResults = None

C16_ViewSwitchOnlyOnResults ==
  [][\A c \in DOMAIN calls :
       RepliedWithoutQueryResults(c) =>
         /\ activeDataView' = activeDataView
         /\ currentQueryResult' = currentQueryResult]_vars

\* C17: the count on the Logs button is the number of tool calls of the most
\* recent assistant message of session.messages, 0 when that message made none
\* (and 0 when there is no assistant message).
AssistantIndexes == {i \in DOMAIN Messages : Messages[i].role = "assistant"}

LastAssistantToolCalls ==
  IF AssistantIndexes = {} THEN 0
  ELSE LET i == CHOOSE k \in AssistantIndexes : \A j \in AssistantIndexes : j <= k
       IN Len(OptSeq(Messages[i].toolCalls))

C17_CountOfLastAssistant ==
  toolCallCount = LastAssistantToolCalls

\* C18: a loadModels that succeeds with a non-empty list leaves selectedModel
\* among the keys of availableModels: a selection that is among the returned
\* keys is kept, any other is replaced by the server's default or the first
\* model; a loadModels that fails leaves selectedModel and availableModels alone.
LoadModelsReturns == modelLoads' = modelLoads - 1

C18_SelectionAmongAvailable ==
  [][/\ (LoadModelsReturns /\ modelReply' = "ok" /\ availableModels' # <<>>) =>
          /\ selectedModel' \in Keys(availableModels')
          /\ selectedModel \in Keys(availableModels') => selectedModel' = selectedModel
          /\ selectedModel \notin Keys(availableModels') =>
               selectedModel' \in {defaultModel', availableModels'[1]}
     /\ (LoadModelsReturns /\ modelReply' = "failed") =>
          /\ selectedModel' = selectedModel
          /\ availableModels' = availableModels]_vars

\* C19: the groups of groupMessages, concatenated, are the input list; a
\* system group is a non-empty run of system messages and no two system groups
\* are adjacent; every user or assistant message is a message group of its own.
GroupMembers(g) == IF g.type = "system" THEN g.messages ELSE <<g.message>>

RECURSIVE Concatenated(_)
Concatenated(gs) ==
  IF gs = <<>> THEN <<>> ELSE GroupMembers(Head(gs)) \o Concatenated(Tail(gs))

C19_GroupsPartition ==
  groups # None =>
    LET gs == groups[1] IN
    /\ Concatenated(gs) = groupInput
    /\ \A k \in DOMAIN gs :
         /\ gs[k].type \in {"system", "message"}
         /\ gs[k].type = "system" =>
              /\ gs[k].messages # <<>>
              /\ \A i \in DOMAIN gs[k].messages : gs[k].messages[i].role = "system"
         /\ gs[k].type = "message" => gs[k].message.role \in {"user", "assistant"}
    /\ \A k \in 1..(Len(gs) - 1) : ~(gs[k].type = "system" /\ gs[k + 1].type = "system")

C19_Witness ==
  /\ groups # None
  /\ groupInput = AsMessages(<<"user", "system", "system", "assistant">>)
  /\ Len(groups[1]) = 3
  /\ groups[1][2].type = "system" /\ Len(groups[1][2].messages) = 2

\* C20: onTitleChange is called and the title set by a save only when
\* updateSession has succeeded with a trimmed, non-empty name of at most 100
\* characters that differs from the title; a rejected or unchanged value and a
\* failed request make no onTitleChange call and leave the title as it is, and a
\* failed request returns to edit mode with editValue reset to the title.
ValidName(name, current) ==
  /\ name = trim(name)
  /\ name # Str("")
  /\ length(name) <= MaxTitleLength
  /\ name # current

SaveSettled == saving # None /\ saving' = None

C20_TitleChangesOnlyOnSuccessfulSave ==
  [][/\ onTitleChangeCalls' # onTitleChangeCalls =>
          /\ SaveSettled /\ mode' = "view"
          /\ serverName' = saving[1].name
          /\ onTitleChangeCalls' = Append(onTitleChangeCalls, saving[1].name)
          /\ title' = saving[1].name
          /\ ValidName(saving[1].name, saving[1].title)
     /\ (HandleSave /\ saving' = None) =>
          /\ title' = title
          /\ onTitleChangeCalls' = onTitleChangeCalls
          /\ ~ValidName(trim(editValue), title)
     /\ (SaveSettled /\ onTitleChangeCalls' = onTitleChangeCalls) =>
          /\ title' = title
          /\ serverName' = serverName
          /\ titleError' = Some(SaveError)
          /\ mode' = "edit"
          /\ editValue' = title']_vars

\* C21: when sendMessage succeeds, every visualization of the response is in
\* exactly one of the assistant message's charts and graphs (type "network" in
\* graphs, every other type in charts) in the response's order, and one tab is
\* appended per visualization.
Increasing(f) == \A i, j \in DOMAIN f : i < j => f[i] < f[j]

Range(f) == {f[i] : i \in DOMAIN f}

SplitInOrder(vs, charts, graphs) ==
  \E f \in [1..Len(charts) -> 1..Len(vs)], g \in [1..Len(graphs) -> 1..Len(vs)] :
    /\ Increasing(f) /\ Increasing(g)
    /\ Range(f) \cap Range(g) = {}
    /\ Range(f) \cup Range(g) = 1..Len(vs)
    /\ \A i \in DOMAIN f : charts[i] = vs[f[i]] /\ charts[i].type # "network"
    /\ \A i \in DOMAIN g : graphs[i] = vs[g[i]] /\ graphs[i].type = "network"

C21_VisualizationsSplitOnce ==
  [][\A c \in DOMAIN calls : \A t \in Turns :
       SendMessageOk(c, t) =>
         LET reply == Last(session'[1].messages)
             charts == OptSeq(reply.charts)
             graphs == OptSeq(reply.graphs)
             added == SubSeq(visualizationTabs', Len(visualizationTabs) + 1,
                             Len(visualizationTabs'))
         IN
         /\ reply.role = "assistant"
         /\ SplitInOrder(t.visualizations, charts, graphs)
         /\ IsPrefix(visualizationTabs, visualizationTabs')
         /\ Len(added) = Len(t.visualizations)
         /\ [i \in DOMAIN added |-> added[i].spec] = charts \o graphs
         /\ \A i, j \in DOMAIN added : i # j => added[i].id # added[j].id]_vars

C21_Witness ==
  /\ \E c \in CallsOf("sendMessage") : calls[c].outcome = "ok"
  /\ Messages # <<>>
  /\ Last(Messages).charts = Some(<<Bar, Line>>)
  /\ Last(Messages).graphs = Some(<<Network>>)
  /\ Len(visualizationTabs) = 3

\* C22: when an uploadCSV call settles, isUploading becomes false; if the
\* upload, the attach call and the listing all succeeded, the list it writes is
\* the list it started from followed by one user and one assistant upload
\* message, activeTab becomes "data" and sessionDatasets is the listing; if one
\* of the three failed, session, sessionDatasets and activeTab are unchanged and
\* error is set.
UploadSettles(c) ==
  calls[c].op = "uploadCSV" /\ calls[c].pc # "done" /\ calls'[c].pc = "done"

C22_UploadAllOrNothing ==
  [][\A c \in DOMAIN calls :
       UploadSettles(c) =>
         /\ isUploading' = FALSE
         /\ calls'[c].outcome \in {"ok", "failed"}
         /\ calls'[c].outcome = "ok" =>
              LET ms == session'[1].messages
                  n == Len(ms) IN
              /\ session' # None
              /\ n = Len(calls[c].session.messages) + 2
              /\ IsPrefix(calls[c].session.messages, ms)
              /\ ms[n - 1].role = "user" /\ ms[n - 1].id[1] = "upload-user"
              /\ ms[n].role = "assistant" /\ ms[n].id[1] = "upload-assistant"
              /\ activeTab' = "data"
              /\ \E i \in DOMAIN attached' : attached'[i] = c
              /\ sessionDatasets' = attached'
         /\ calls'[c].outcome = "failed" =>
              /\ session' = session
              /\ sessionDatasets' = sessionDatasets
              /\ activeTab' = activeTab
              /\ error' # None]_vars

C22_Witness ==
  /\ \E c \in CallsOf("uploadCSV") : calls[c].outcome = "ok"
  /\ \E c \in CallsOf("uploadCSV") : calls[c].outcome = "failed"
  /\ ~isUploading
  /\ activeTab = "data"
  /\ error # None
  /\ Len(Messages) >= 2
  /\ Last(Messages).id[1] = "upload-assistant"

\* C23: in a linked worktree, without overrides, the script ends with the API
\* port 8700 + h and the web port 3700 + h, h being the sum of the character
\* codes of the worktree name modulo 100; the ports are within 8700..8799 and
\* 3700..3799 and are not the default ports of the main worktree, 8787 and 3737.
RECURSIVE CharCodeSum(_)
CharCodeSum(name) == IF name = <<>> THEN 0 ELSE Head(name) + CharCodeSum(Tail(name))

LinkedResolved ==
  /\ portsPc = "done"
  /\ GIT_DIR.linked
  /\ ORBITAL_API_PORT_OVERRIDE = None
  /\ ORBITAL_WEB_PORT_OVERRIDE = None

C23_LinkedPortsAvoidMain ==
  LinkedResolved =>
    LET h == CharCodeSum(GIT_DIR.name) % 100 IN
    /\ h \in 0..99
    /\ ORBITAL_API_PORT = Some(8700 + h)
    /\ ORBITAL_WEB_PORT = Some(3700 + h)
    /\ ORBITAL_API_PORT[1] \in 8700..8799
    /\ ORBITAL_WEB_PORT[1] \in 3700..3799
    /\ ORBITAL_API_PORT[1] # 8787
    /\ ORBITAL_WEB_PORT[1] # 3737

\* C24: after any sequence of loadSession, sendMessage and uploadCSV
\* operations, with every call settled, visualizationTabs is
\* buildVizTabs(session.messages): same tabs, same ids, same order.
C24_TabsMatchMessages ==
  (session # None /\ InFlight = {}) => visualizationTabs = buildVizTabs(Messages)

====
